---- MODULE Spec2Model ----
(***************************************************************************)
(* Catalog lookup of gettext-rs (src/src/lib.rs): the map of messages, the *)
(* composite key, insert, and the four lookups gettext, ngettext, pgettext *)
(* and npgettext.  A Rust String is modelled as a tuple of code points,    *)
(* Option<T> as a tuple of length 0 (None) or 1 (Some), a Vec<T> as a      *)
(* sequence (Rust index i is TLA+ index i+1), a HashMap as a function.     *)
(***************************************************************************)
EXTENDS Integers, Sequences, FiniteSets, TLC

VARIABLES catalog, call, ret

vars == <<catalog, call, ret>>

-----------------------------------------------------------------------------
(* Bounds of the model *)

\* most entries the map holds
MaxEntries == 2
\* most translated forms of one message
MaxForms == 3
\* counts passed to ngettext/npgettext are 0..MaxN
MaxN == 2
\* counts passed to ngettext under PluralSpec are 0..MaxCount and 100..100+MaxCount
MaxCount == 21

-----------------------------------------------------------------------------
(* Rust values *)

None == <<>>
Some(x) == <<x>>

\* a call that returned the &str s
Ok(s) == [kind |-> "ok", val |-> s]
\* a call that panicked (index out of bounds): the thread unwinds
Panic == [kind |-> "panic", val |-> <<>>]
\* a call that returned ()
Unit(old) == [kind |-> "unit", val |-> old]

\* '\x04', the separator key_with_context pushes
SEP == 4

\* msgids of stored messages: "a" and "\x04a"
Ids == {<<97>>, <<SEP, 97>>}
\* contexts of stored messages: "c" and "c\x04"
Contexts == {<<99>>, <<99, SEP>>}
\* msgid_plural arguments: "as"
PluralIds == {<<97, 115>>}
\* msg_id arguments of the context-less lookups: the ids and every
\* context + '\x04' + id string
LookupIds == Ids \cup {c \o <<SEP>> \o i : c \in Contexts, i \in Ids}

Counts == 0..MaxN
WideCounts == (0..MaxCount) \cup {100 + k : k \in 0..MaxCount}

\* form k of the message (context, id): "T" context "|" id digit, a text
\* that names the message and the position it is stored at
FormText(context, id, k) ==
    <<84>> \o (IF context = None THEN <<>> ELSE context[1]) \o <<124>> \o id \o <<48 + k>>

\* Message::new(id, context, translated)
Message_new(id, context, translated) ==
    [id |-> id, context |-> context, translated |-> translated]

Messages ==
    { Message_new(i, c, [k \in 1..len |-> FormText(c, i, k - 1)]) :
        i \in Ids, c \in {None} \cup {Some(x) : x \in Contexts}, len \in 0..MaxForms }

-----------------------------------------------------------------------------
(* Plural rules: the expression tree and its evaluation *)

VarN == [op |-> "n"]
Lit(v) == [op |-> "int", v |-> v]
Bin(o, l, r) == [op |-> o, l |-> l, r |-> r]
Tern(c, t, e) == [op |-> "?:", c |-> c, t |-> t, e |-> e]

Bool(b) == IF b THEN 1 ELSE 0

RECURSIVE Eval(_, _)
Eval(ast, n) ==
    CASE ast.op = "n"   -> n
      [] ast.op = "int" -> ast.v
      [] ast.op = "?:"  -> IF Eval(ast.c, n) # 0 THEN Eval(ast.t, n) ELSE Eval(ast.e, n)
      [] ast.op = "||"  -> Bool(Eval(ast.l, n) # 0 \/ Eval(ast.r, n) # 0)
      [] ast.op = "&&"  -> Bool(Eval(ast.l, n) # 0 /\ Eval(ast.r, n) # 0)
      [] ast.op = "=="  -> Bool(Eval(ast.l, n) = Eval(ast.r, n))
      [] ast.op = "!="  -> Bool(Eval(ast.l, n) # Eval(ast.r, n))
      [] ast.op = "<"   -> Bool(Eval(ast.l, n) < Eval(ast.r, n))
      [] ast.op = "<="  -> Bool(Eval(ast.l, n) <= Eval(ast.r, n))
      [] ast.op = ">"   -> Bool(Eval(ast.l, n) > Eval(ast.r, n))
      [] ast.op = ">="  -> Bool(Eval(ast.l, n) >= Eval(ast.r, n))
      [] ast.op = "+"   -> Eval(ast.l, n) + Eval(ast.r, n)
      [] ast.op = "-"   -> Eval(ast.l, n) - Eval(ast.r, n)
      [] ast.op = "*"   -> Eval(ast.l, n) * Eval(ast.r, n)
      [] ast.op = "/"   -> Eval(ast.l, n) \div Eval(ast.r, n)
      [] ast.op = "%"   -> Eval(ast.l, n) % Eval(ast.r, n)

\* plural=(n==1?0:(n==0||(n%100>0&&n%100<20))?2:1)
ComplexPlural ==
    Tern(Bin("==", VarN, Lit(1)),
         Lit(0),
         Tern(Bin("||", Bin("==", VarN, Lit(0)),
                        Bin("&&", Bin(">", Bin("%", VarN, Lit(100)), Lit(0)),
                                  Bin("<", Bin("%", VarN, Lit(100)), Lit(20)))),
              Lit(2),
              Lit(1)))

\* plural=(n>1), the rule of a language where 0 takes the singular form
FrenchPlural == Bin(">", VarN, Lit(1))

PluralRules == {ComplexPlural, FrenchPlural}

\* the built-in rule n != 1
default_resolver(n) == IF n = 1 THEN 0 ELSE 1

Function == [tag |-> "Function", ast |-> Lit(0)]
Expr(ast) == [tag |-> "Expr", ast |-> ast]

\* Resolver::resolve
resolve(resolver, n) ==
    IF resolver.tag = "Function" THEN default_resolver(n) ELSE Eval(resolver.ast, n)

-----------------------------------------------------------------------------
(* Catalog *)

\* key_with_context without result.push('\x04')
key_with_context_no_separator(context, key) == context \o key

key_with_context(context, key) == (context \o <<SEP>>) \o key

\* Catalog::new
Catalog_new == [strings |-> [k \in {} |-> None], resolver |-> Function]

\* the catalog the parser hands over for a header with a Plural-Forms rule,
\* before its entries are inserted
Catalog_with_rule(ast) == [Catalog_new EXCEPT !.resolver = Expr(ast)]

\* the key Catalog::insert computes for msg
insert_key(msg) ==
    IF msg.context # None THEN key_with_context(msg.context[1], msg.id) ELSE msg.id

\* HashMap::get
HashMap_get(strings, key) ==
    IF key \in DOMAIN strings THEN Some(strings[key]) ELSE None

\* HashMap::insert: the map afterwards
HashMap_insert(strings, key, value) ==
    [k \in DOMAIN strings \cup {key} |-> IF k = key THEN value ELSE strings[k]]

\* insert that keeps an entry already present (entry(key).or_insert(msg))
insert_keep_first(self, msg) ==
    IF insert_key(msg) \in DOMAIN self.strings THEN self
    ELSE [self EXCEPT !.strings = HashMap_insert(self.strings, insert_key(msg), msg)]

\* Catalog::insert
insert(self, msg) ==
    [self EXCEPT !.strings = HashMap_insert(self.strings, insert_key(msg), msg)]

\* Message::get_translated
get_translated(msg, form_no) ==
    IF form_no < Len(msg.translated) THEN Some(msg.translated[form_no + 1]) ELSE None

\* gettext with unwrap_or(msg_id) applied to the map lookup alone: a message
\* without forms yields the empty string
gettext_unwrap_early(self, msg_id) ==
    LET found == HashMap_get(self.strings, msg_id)
    IN  IF found = None THEN Ok(msg_id)
        ELSE IF get_translated(found[1], 0) = None THEN Ok(<<>>)
        ELSE Ok(get_translated(found[1], 0)[1])

\* Catalog::gettext
gettext(self, msg_id) ==
    LET found == HashMap_get(self.strings, msg_id)
        form == IF found = None THEN None ELSE get_translated(found[1], 0)
    IN  IF form = None THEN Ok(msg_id) ELSE Ok(form[1])

\* indexing the two-element array [msg_id, msg_id_plural] with form_no
fallback_index(msg_id, msg_id_plural, form_no) ==
    IF form_no < 2 THEN Ok(<<msg_id, msg_id_plural>>[form_no + 1]) ELSE Panic

\* ngettext that takes the form by the test n == 1 (form 0 or form 1) instead
\* of the resolver's index
ngettext_two_forms(self, msg_id, msg_id_plural, n) ==
    LET form_no == IF n = 1 THEN 0 ELSE 1
        found == HashMap_get(self.strings, msg_id)
    IN  IF found # None
        THEN LET form == get_translated(found[1], form_no)
             IN  IF form # None THEN Ok(form[1])
                 ELSE fallback_index(msg_id, msg_id_plural, form_no)
        ELSE IF n = 1 THEN Ok(msg_id) ELSE Ok(msg_id_plural)

\* ngettext that always takes form 0 of a stored message
ngettext_first_form(self, msg_id, msg_id_plural, n) ==
    LET form_no == resolve(self.resolver, n)
        found == HashMap_get(self.strings, msg_id)
    IN  IF found # None
        THEN LET form == get_translated(found[1], 0)
             IN  IF form # None THEN Ok(form[1])
                 ELSE fallback_index(msg_id, msg_id_plural, form_no)
        ELSE IF n = 1 THEN Ok(msg_id) ELSE Ok(msg_id_plural)

\* Catalog::ngettext
ngettext(self, msg_id, msg_id_plural, n) ==
    LET form_no == resolve(self.resolver, n)
        found == HashMap_get(self.strings, msg_id)
    IN  IF found # None
        THEN LET form == get_translated(found[1], form_no)
             IN  IF form # None THEN Ok(form[1])
                 ELSE fallback_index(msg_id, msg_id_plural, form_no)
        ELSE IF n = 1 THEN Ok(msg_id) ELSE Ok(msg_id_plural)

\* pgettext whose fallback is the key it looked up (unwrap_or(&key))
pgettext_key_fallback(self, msg_context, msg_id) ==
    LET key == key_with_context(msg_context, msg_id)
        found == HashMap_get(self.strings, key)
        form == IF found = None THEN None ELSE get_translated(found[1], 0)
    IN  IF form = None THEN Ok(key) ELSE Ok(form[1])

\* Catalog::pgettext
pgettext(self, msg_context, msg_id) ==
    LET key == key_with_context(msg_context, msg_id)
        found == HashMap_get(self.strings, key)
        form == IF found = None THEN None ELSE get_translated(found[1], 0)
    IN  IF form = None THEN Ok(msg_id) ELSE Ok(form[1])

\* npgettext with the fallback array in the other order
npgettext_swapped(self, msg_context, msg_id, msg_id_plural, n) ==
    LET key == key_with_context(msg_context, msg_id)
        form_no == resolve(self.resolver, n)
        found == HashMap_get(self.strings, key)
    IN  IF found # None
        THEN LET form == get_translated(found[1], form_no)
             IN  IF form # None THEN Ok(form[1])
                 ELSE fallback_index(msg_id_plural, msg_id, form_no)
        ELSE IF n = 1 THEN Ok(msg_id) ELSE Ok(msg_id_plural)

\* Catalog::npgettext
npgettext(self, msg_context, msg_id, msg_id_plural, n) ==
    LET key == key_with_context(msg_context, msg_id)
        form_no == resolve(self.resolver, n)
        found == HashMap_get(self.strings, key)
    IN  IF found # None
        THEN LET form == get_translated(found[1], form_no)
             IN  IF form # None THEN Ok(form[1])
                 ELSE fallback_index(msg_id, msg_id_plural, form_no)
        ELSE IF n = 1 THEN Ok(msg_id) ELSE Ok(msg_id_plural)

-----------------------------------------------------------------------------
(* The state machine: a program that builds a catalog and looks messages up *)

\* a panic unwinds the calling thread: nothing is called after it
Running == ret.kind # "panic"

\* Catalog::new(): no entries, the default rule
Init ==
    /\ catalog = Catalog_new
    /\ call = [op |-> "new"]
    /\ ret = Unit(None)

\* a catalog whose header carried a Plural-Forms rule
ExprInit ==
    /\ catalog \in {Catalog_with_rule(r) : r \in PluralRules}
    /\ call = [op |-> "new"]
    /\ ret = Unit(None)

\* the catalog of test_complex_plural: the rule ComplexPlural and one message
PluralInit ==
    /\ catalog \in {insert(Catalog_with_rule(ComplexPlural), msg) : msg \in Messages}
    /\ call = [op |-> "new"]
    /\ ret = Unit(None)

Insert ==
    \E msg \in Messages :
        /\ Running
        /\ Cardinality(DOMAIN catalog.strings \cup {insert_key(msg)}) <= MaxEntries
        /\ catalog' = insert(catalog, msg)
        /\ call' = [op |-> "insert", msg |-> msg]
        /\ ret' = Unit(HashMap_get(catalog.strings, insert_key(msg)))

Gettext ==
    \E msg_id \in LookupIds :
        /\ Running
        /\ call' = [op |-> "gettext", msg_id |-> msg_id]
        /\ ret' = gettext(catalog, msg_id)
        /\ UNCHANGED catalog

Ngettext ==
    \E msg_id \in LookupIds, msg_id_plural \in PluralIds, n \in Counts :
        /\ Running
        /\ call' = [op |-> "ngettext", msg_id |-> msg_id,
                    msg_id_plural |-> msg_id_plural, n |-> n]
        /\ ret' = ngettext(catalog, msg_id, msg_id_plural, n)
        /\ UNCHANGED catalog

Pgettext ==
    \E msg_context \in Contexts, msg_id \in Ids :
        /\ Running
        /\ call' = [op |-> "pgettext", msg_context |-> msg_context, msg_id |-> msg_id]
        /\ ret' = pgettext(catalog, msg_context, msg_id)
        /\ UNCHANGED catalog

Npgettext ==
    \E msg_context \in Contexts, msg_id \in Ids, msg_id_plural \in PluralIds, n \in Counts :
        /\ Running
        /\ call' = [op |-> "npgettext", msg_context |-> msg_context, msg_id |-> msg_id,
                    msg_id_plural |-> msg_id_plural, n |-> n]
        /\ ret' = npgettext(catalog, msg_context, msg_id, msg_id_plural, n)
        /\ UNCHANGED catalog

\* ngettext over the counts of test_complex_plural and beyond
NgettextWide ==
    \E msg_id \in LookupIds, msg_id_plural \in PluralIds, n \in WideCounts :
        /\ Running
        /\ call' = [op |-> "ngettext", msg_id |-> msg_id,
                    msg_id_plural |-> msg_id_plural, n |-> n]
        /\ ret' = ngettext(catalog, msg_id, msg_id_plural, n)
        /\ UNCHANGED catalog

Next == Insert \/ Gettext \/ Ngettext \/ Pgettext \/ Npgettext

\* a catalog made by Catalog::new
Spec == Init /\ [][Next]_vars

\* a catalog with a compiled plural rule
ExprSpec == ExprInit /\ [][Next]_vars

PluralNext == NgettextWide

\* the catalog of test_complex_plural
PluralSpec == PluralInit /\ [][PluralNext]_vars

-----------------------------------------------------------------------------
(* Vocabulary of the properties *)

\* the messages the map holds
Stored == {catalog.strings[k] : k \in DOMAIN catalog.strings}

\* the composite key of a message: the id alone, or context + '\x04' + id
CompositeKey(m) ==
    IF m.context = None THEN m.id ELSE m.context[1] \o <<SEP>> \o m.id

\* the messages held for composite key k
StoredUnderKey(k) == {m \in Stored : CompositeKey(m) = k}

\* the messages held whose context and id are exactly these
StoredAs(context, id) == {m \in Stored : m.context = context /\ m.id = id}

\* s has no '\x04' in it
SepFree(s) == \A j \in 1..Len(s) : s[j] # SEP

\* no id or context of a stored message has a '\x04' in it
StoredSepFree ==
    \A m \in Stored : SepFree(m.id) /\ (m.context # None => SepFree(m.context[1]))

HasForm(m, idx) == idx < Len(m.translated)
Form(m, idx) == m.translated[idx + 1]

\* the documented fallback of ngettext and npgettext
Fallback(c) == IF c.n = 1 THEN c.msg_id ELSE c.msg_id_plural

\* the result is form idx of a message of ms that has one, or else the string other
FormOrElse(ms, idx, other) ==
    LET with == {m \in ms : HasForm(m, idx)}
    IN  IF with # {} THEN \E m \in with : ret = Ok(Form(m, idx)) ELSE ret = Ok(other)

LookupOps == {"gettext", "ngettext", "pgettext", "npgettext"}
PluralOps == {"ngettext", "npgettext"}

\* the key a plural lookup consults
PluralKey(c) ==
    IF c.op = "ngettext" THEN c.msg_id ELSE c.msg_context \o <<SEP>> \o c.msg_id

-----------------------------------------------------------------------------
(* C1 *)

\* C1: ngettext returns the form at the resolver's index of the message
\* stored under key msg_id when that message has a form there; in every other
\* case it returns msg_id if n == 1 and msg_id_plural if n != 1.
C1_NgettextContract ==
    call.op = "ngettext" =>
        LET idx == resolve(catalog.resolver, call.n)
            ms == IF call.msg_id \in DOMAIN catalog.strings
                  THEN {catalog.strings[call.msg_id]} ELSE {}
        IN  FormOrElse(ms, idx, Fallback(call))

(* C2 *)

\* C2: no lookup aborts: each of gettext, ngettext, pgettext and npgettext
\* returns a string, and that string is a stored translated form or one of
\* the caller's fallback strings.
C2_LookupsNeverFail ==
    call.op \in LookupOps =>
        /\ ret.kind = "ok"
        /\ ret.val \in UNION {{Form(m, idx) : idx \in 0..(Len(m.translated) - 1)} : m \in Stored}
                        \cup {call.msg_id}
                        \cup (IF call.op \in PluralOps THEN {call.msg_id_plural} ELSE {})

(* C3 *)

\* C3: npgettext returns the form at the resolver's index of the message
\* stored under (context, msg_id) when that message has a form there;
\* otherwise msg_id if n == 1 and msg_id_plural if n != 1; a message of
\* another context, or of none, is never used.
C3_NpgettextContract ==
    call.op = "npgettext" =>
        FormOrElse(StoredAs(Some(call.msg_context), call.msg_id),
                   resolve(catalog.resolver, call.n), Fallback(call))

(* C4 *)

\* C4 as stated: gettext returns form 0 of the context-less message whose id
\* is msg_id when it has a form, and msg_id otherwise, for every msg_id.
C4_GettextContextLess ==
    call.op = "gettext" => FormOrElse(StoredAs(None, call.msg_id), 0, call.msg_id)

\* C4 as amended: gettext returns form 0 of the message held under the map
\* key msg_id when it has a form, and msg_id otherwise; for a msg_id without
\* '\x04' that message is the context-less message whose id is msg_id.
C4_GettextByKey ==
    call.op = "gettext" =>
        /\ FormOrElse(StoredUnderKey(call.msg_id), 0, call.msg_id)
        /\ SepFree(call.msg_id) => FormOrElse(StoredAs(None, call.msg_id), 0, call.msg_id)

\* gettext of the id of a message stored only under a context returned the id
C4_Witness ==
    /\ call.op = "gettext"
    /\ SepFree(call.msg_id)
    /\ StoredAs(None, call.msg_id) = {}
    /\ \E m \in Stored : m.context # None /\ m.id = call.msg_id /\ HasForm(m, 0)
    /\ ret = Ok(call.msg_id)

(* C5 *)

\* C5 as stated: pgettext returns form 0 of the message stored under exactly
\* (context, msg_id) when it has a form, and msg_id otherwise.
C5_PgettextExactPair ==
    call.op = "pgettext" =>
        FormOrElse(StoredAs(Some(call.msg_context), call.msg_id), 0, call.msg_id)

\* C5 as amended: pgettext returns form 0 of the message held under the map
\* key context + '\x04' + msg_id when it has a form, and msg_id alone
\* otherwise; when no '\x04' occurs in the arguments or in a stored id or
\* context, that message is the one stored under exactly (context, msg_id).
C5_PgettextByKey ==
    call.op = "pgettext" =>
        /\ FormOrElse(StoredUnderKey(call.msg_context \o <<SEP>> \o call.msg_id),
                      0, call.msg_id)
        /\ (SepFree(call.msg_context) /\ SepFree(call.msg_id) /\ StoredSepFree) =>
               FormOrElse(StoredAs(Some(call.msg_context), call.msg_id), 0, call.msg_id)

\* pgettext found only a context-less message of the same id and returned the id
C5_Witness ==
    /\ call.op = "pgettext"
    /\ SepFree(call.msg_context) /\ SepFree(call.msg_id) /\ StoredSepFree
    /\ StoredAs(Some(call.msg_context), call.msg_id) = {}
    /\ \E m \in StoredAs(None, call.msg_id) : HasForm(m, 0)
    /\ ret = Ok(call.msg_id)

(* C6 *)

\* C6: under the default rule the resolver yields 0 for n == 1 and 1 for
\* every other n, so for a message with two forms ngettext and npgettext
\* return form 0 exactly when n == 1 and form 1 otherwise, n == 0 included.
C6_DefaultRule ==
    catalog.resolver.tag = "Function" =>
        /\ \A n \in Counts : resolve(catalog.resolver, n) = IF n = 1 THEN 0 ELSE 1
        /\ call.op \in PluralOps =>
               \A m \in StoredUnderKey(PluralKey(call)) :
                   Len(m.translated) >= 2 =>
                       ret = Ok(IF call.n = 1 THEN Form(m, 0) ELSE Form(m, 1))

\* npgettext with n == 0 returned form 1 of a message with two forms
C6_Witness ==
    /\ catalog.resolver.tag = "Function"
    /\ call.op = "npgettext"
    /\ call.n = 0
    /\ \E m \in StoredUnderKey(PluralKey(call)) :
           Len(m.translated) = 2 /\ ret = Ok(Form(m, 1))

(* C7 *)

C8_InsertOverwrites ==
    [][ call'.op = "insert" =>
          LET m == call'.msg
              k == CompositeKey(m)
              before == catalog.strings
              after == catalog'.strings
          IN  /\ DOMAIN after = DOMAIN before \cup {k}
              /\ after[k] = m
              /\ \A j \in DOMAIN before \ {k} : after[j] = before[j]
              /\ \A j \in DOMAIN after : CompositeKey(after[j]) = j
              /\ catalog'.resolver = catalog.resolver ]_vars

\* an insert replaced a different message held under its key, beside another entry
C8_Witness ==
    /\ call.op = "insert"
    /\ ret.val # None
    /\ ret.val[1] # call.msg
    /\ CompositeKey(ret.val[1]) = CompositeKey(call.msg)
    /\ catalog.strings[CompositeKey(call.msg)] = call.msg
    /\ Cardinality(DOMAIN catalog.strings) >= 2

(* C9 *)

\* C9: under the default rule ngettext and npgettext return without failing
\* for every stored message shape, the computed index is 0 exactly when
\* n == 1 and never above 1, and when the message has no form at that index
\* the result is msg_id exactly when n == 1 and msg_id_plural otherwise.
C9_DefaultFallback ==
    (call.op \in PluralOps /\ catalog.resolver.tag = "Function") =>
        LET idx == resolve(catalog.resolver, call.n)
        IN  /\ ret.kind = "ok"
            /\ idx < 2
            /\ idx = 0 <=> call.n = 1
            /\ \A m \in StoredUnderKey(PluralKey(call)) :
                   ~HasForm(m, idx) => ret = Ok(Fallback(call))

\* npgettext with n == 0 fell back to msg_id_plural on a message with one form
C9_Witness ==
    /\ call.op = "npgettext"
    /\ catalog.resolver.tag = "Function"
    /\ call.n = 0
    /\ \E m \in StoredUnderKey(PluralKey(call)) : Len(m.translated) = 1
    /\ ret = Ok(call.msg_id_plural)
    /\ call.msg_id_plural # call.msg_id

(* C10 *)

\* C10: gettext(c + '\x04' + i) and pgettext(c, i) consult the same entry:
\* when it has a form both return its form 0, otherwise gettext returns the
\* whole string and pgettext returns i; two (context, id) pairs with the same
\* concatenation around '\x04' reach the same entry.
C10_SharedKeySpace ==
    \A c \in Contexts, i \in Ids :
        LET k == c \o <<SEP>> \o i
            g == gettext(catalog, k)
            p == pgettext(catalog, c, i)
            ms == {m \in StoredUnderKey(k) : HasForm(m, 0)}
        IN  /\ ms # {} => \E m \in ms : g = Ok(Form(m, 0)) /\ p = g
            /\ ms = {} => g = Ok(k) /\ p = Ok(i)
            /\ \A c2 \in Contexts, i2 \in Ids :
                   (c2 \o <<SEP>> \o i2 = k /\ ms # {}) => pgettext(catalog, c2, i2) = p
            /\ (call.op = "pgettext" /\ call.msg_context = c /\ call.msg_id = i) => ret = p
            /\ (call.op = "gettext" /\ call.msg_id = k) => ret = g

\* pgettext returned form 0 of a message stored under another (context, id)
\* pair with the same concatenation
C10_Witness ==
    /\ call.op = "pgettext"
    /\ \E m \in Stored :
           /\ HasForm(m, 0)
           /\ ret = Ok(Form(m, 0))
           /\ m.context # None
           /\ m.context # Some(call.msg_context)
           /\ m.id # call.msg_id
           /\ gettext(catalog, call.msg_context \o <<SEP>> \o call.msg_id) = ret

====
